---- MODULE Spec2Model ----
(***************************************************************************)
(* The WebSocket relay of src/main.py: ConnectionManager (the registry     *)
(* active_connections and broadcast) and websocket_endpoint (one asyncio   *)
(* task per accepted connection).                                          *)
(*                                                                         *)
(* Tasks run on one event loop and switch only at an await: accept(),      *)
(* send_json() and receive_text().  An action below is the code a task     *)
(* runs from one await to the next.                                        *)
(*                                                                         *)
(* The signup route runs in worker threads against the table users; its    *)
(* actions are the statements of one request that touch the table.         *)
(***************************************************************************)
EXTENDS Integers, Sequences, FiniteSets, TLC

VARIABLES
    entries,   \* active_connections: the dict's entry array, in insertion order
    pc,        \* per connection: where its websocket_endpoint task stands
    uid,       \* per connection: the user_id of its path (0 before it connects)
    sock,      \* per connection: "open", "peer_closed" or "srv_closed"
    it,        \* per connection: the dict value iterator of its running broadcast
    inbox,     \* per connection: the text frames delivered to its client, in order
    hist,      \* per connection: the broadcasts its task started, in order (history)
    cur,       \* per connection: the registered connections its latest broadcast
               \* started with, those it sent to, and those it left out (history)
    exc,       \* per connection: the last exception raised in its task
    regLast,   \* per identifier: the connection last registered and not since
               \* unregistered, 0 if none (history of the connect/disconnect calls)
    call,      \* the last direct call of a ConnectionManager method and how it
               \* ended (history)
    lastPres,  \* per identifier: the event of the presence broadcast started
               \* last for it, "none" if there was none (history)
    users,     \* the rows of the table users
    req        \* per signup request: where its handler stands, its body, what
               \* its existence check found and the token it was answered with

vars == <<entries, pc, uid, sock, it, inbox, hist, cur, exc, regLast, call, lastPres,
          users, req>>

\* ------------------------------------------------------------------ bounds
NConn == 3        \* connection instances (one task each)
NIds == 3         \* distinct user_id path values
MaxFrames == 2    \* inbound frames parsed, over all connections
MaxPersonal == 2  \* personal messages delivered by direct send_personal_message calls
NReq == 3         \* signup requests, each handled in a thread of its own
NEmails == 2      \* distinct email values
NNames == 2       \* distinct username values

Conns == 1..NConn
Ids == 1..NIds
NoConn == 0

\* ---------------------------------------------------------------- envelopes
Online(u) == <<"user_online", u>>
Offline(u) == <<"user_offline", u>>
\* The payloads clients send are told apart by a number.
Message(n) == <<"payload", n>>
Payload == Message(1)

\* Text frames: a JSON text is <<layout, value>>; json.loads keeps the value
\* and drops the layout, send_json writes the compact layout.
NotJson == <<"notjson", <<"payload", 0>>>>
NoFrame == <<"none", <<"payload", 0>>>>
InFrames == {<<"spaced", Message(n)>> : n \in 1..MaxFrames} \cup {NotJson}

IsJson(text) == text[1] \in {"compact", "spaced"}
loads(text) == text[2]

\* A plausible slip: an encoder that does not give back the value it was given.
send_json_text_altered(value) == <<"compact", <<value[1], value[2] + 1>>>>

send_json_text(value) == <<"compact", value>>

\* The exception a failed send raises depends on the Starlette/uvicorn build.
SendExc == {"WebSocketDisconnect", "RuntimeError"}

\* ------------------------------------------------- the dict active_connections
\* A CPython dict keeps its entries in an array in insertion order: a new key is
\* appended, an existing key keeps its slot, and a deleted key leaves an empty
\* slot behind.  (The array is rebuilt only when its free slots run out, 5 for
\* a new dict, which NConn insertions never reach.)
Tomb == [key |-> 0, val |-> NoConn]

Live(d) == {i \in 1..Len(d) : d[i].val # NoConn}
DictUsed(d) == Cardinality(Live(d))
DictHas(d, k) == \E i \in Live(d) : d[i].key = k
DictGet(d, k) == IF DictHas(d, k) THEN d[CHOOSE i \in Live(d) : d[i].key = k].val ELSE NoConn
DictValues(d) == {d[i].val : i \in Live(d)}

\* A plausible slip: a registration that does not look the key up first.
DictSetAppend(d, k, v) == Append(d, [key |-> k, val |-> v])

\* self.active_connections[user_id] = websocket
DictSet(d, k, v) ==
    IF DictHas(d, k)
    THEN [i \in 1..Len(d) |-> IF d[i].val # NoConn /\ d[i].key = k
                              THEN [key |-> k, val |-> v] ELSE d[i]]
    ELSE Append(d, [key |-> k, val |-> v])

\* del self.active_connections[user_id]
DictDel(d, k) ==
    [i \in 1..Len(d) |-> IF d[i].val # NoConn /\ d[i].key = k THEN Tomb ELSE d[i]]

\* iter(self.active_connections.values()): the iterator remembers the size of
\* the dict, the next slot to look at and how many values it still expects.
NoIter == [used |-> 0, pos |-> 0, len |-> 0]
dict_values_iter(d) == [used |-> DictUsed(d), pos |-> 1, len |-> DictUsed(d)]

\* next() on that iterator, over the live dict d.
dictiter_next(d, itr) ==
    IF itr.used # DictUsed(d)
    THEN [tag |-> "error", conn |-> NoConn, it |-> NoIter]   \* changed size during iteration
    ELSE LET rest == {i \in Live(d) : i >= itr.pos} IN
         IF rest = {}
         THEN [tag |-> "stop", conn |-> NoConn, it |-> NoIter]
         ELSE IF itr.len = 0
         THEN [tag |-> "error", conn |-> NoConn, it |-> NoIter]   \* keys changed during iteration
         ELSE LET i == CHOOSE j \in rest : \A m \in rest : j <= m IN
              [tag |-> "value", conn |-> d[i].val,
               it |-> [used |-> itr.used, pos |-> i + 1, len |-> itr.len - 1]]

\* ------------------------------------------------------------ the whole state
World ==
    [entries |-> entries, pc |-> pc, uid |-> uid, sock |-> sock, it |-> it,
     inbox |-> inbox, hist |-> hist, cur |-> cur, exc |-> exc, regLast |-> regLast,
     call |-> call, lastPres |-> lastPres,
     err |-> "none"]   \* the exception a manager method has just raised, if any

Commit(w) ==
    /\ entries' = w.entries
    /\ pc' = w.pc
    /\ uid' = w.uid
    /\ sock' = w.sock
    /\ it' = w.it
    /\ inbox' = w.inbox
    /\ hist' = w.hist
    /\ cur' = w.cur
    /\ exc' = w.exc
    /\ regLast' = w.regLast
    /\ call' = w.call
    /\ lastPres' = w.lastPres
    /\ UNCHANGED <<users, req>>

OpenConns(w) == {c \in Conns : w.sock[c] = "open"}

\* The recipients the latest broadcast of c started with that can still be
\* reached and were not sent its envelope (history, taken when it ends).
Missed(w, c) == (w.cur[c].snap \cap OpenConns(w)) \ w.cur[c].sent
Ended == {"done", "crashed"}

\* ------------------------------------------------------- ConnectionManager
\* connect, after the await of accept(): the assignment into the dict.
connect(w, c, u) ==
    [w EXCEPT !.entries = DictSet(@, u, c), !.uid[c] = u, !.regLast[u] = c]

\* A plausible slip: the handler that announces user_offline without having
\* removed the entry.
disconnect_forget(w, u) == w

\* A plausible slip: the del without the membership test, which raises
\* KeyError for a key that is not in the dict.
disconnect_del(w, u) ==
    IF DictHas(w.entries, u)
    THEN [w EXCEPT !.entries = DictDel(@, u), !.regLast[u] = NoConn]
    ELSE [w EXCEPT !.err = "KeyError"]

disconnect(w, u) ==
    [w EXCEPT !.entries = IF DictHas(@, u) THEN DictDel(@, u) ELSE @,
              !.regLast[u] = NoConn]

\* A plausible slip: the try placed inside the while, so that the loop goes on
\* after the except handler.
AfterBroadcastRetry(kind) == "recv"

\* Where the task goes when a broadcast of this kind returns.
AfterBroadcast(kind) == IF kind = "offline" THEN "done" ELSE "recv"

\* The try block of websocket_endpoint covers receive_text, json.loads and the
\* relay broadcast; the online broadcast and the except handler are outside.
InTry(at) == at \in {"recv", "relay"}

\* An exception x leaves the running broadcast of c (raised by the send to
\* `target`, or by the iterator when target is NoConn).
raise_in_broadcast(w, c, x, target) ==
    LET k == Len(w.hist[c]) IN
    [w EXCEPT !.hist[c][k].res = x,
              !.hist[c][k].failedTo = target,
              !.cur[c].missed = Missed(w, c),
              !.it[c] = NoIter,
              !.exc[c] = x,
              !.pc[c] = IF InTry(@) THEN "raise_in_try" ELSE "raise"]

\* One turn of `for connection in ...values(): await connection.send_json(message)`:
\* next() on the iterator, then the send up to its await.  e is the exception
\* this build raises for a send on a closed socket.
broadcast_step(w, c, e) ==
    LET k == Len(w.hist[c])
        n == dictiter_next(w.entries, w.it[c])
    IN  CASE n.tag = "stop" ->
               [w EXCEPT !.hist[c][k].res = "ok",
                         !.cur[c].missed = Missed(w, c),
                         !.it[c] = NoIter,
                         !.pc[c] = AfterBroadcast(w.hist[c][k].kind)]
          [] n.tag = "error" -> raise_in_broadcast(w, c, "RuntimeError", NoConn)
          [] OTHER ->
               IF w.sock[n.conn] = "open"
               THEN [w EXCEPT !.inbox[n.conn] = Append(@, send_json_text(w.hist[c][k].env)),
                              !.cur[c].sent = @ \cup {n.conn},
                              !.it[c] = n.it]
               ELSE raise_in_broadcast(w, c, e, n.conn)

\* broadcast(message) from its call to its first await.
broadcast(w, c, kind, frame, env, e) ==
    broadcast_step(
        [w EXCEPT !.it[c] = dict_values_iter(w.entries),
                  !.pc[c] = kind,
                  !.lastPres = IF kind \in {"online", "offline"}
                               THEN [@ EXCEPT ![env[2]] = env[1]] ELSE @,
                  !.hist[c] = Append(@, [kind |-> kind, frame |-> frame, env |-> env,
                                         res |-> "run", failedTo |-> NoConn]),
                  !.cur[c] = [snap |-> DictValues(w.entries), sent |-> {}, missed |-> {}]],
        c, e)

\* send_personal_message: the lookup with get, and the send if it found one.
send_personal_message(w, u, message, e) ==
    LET websocket == DictGet(w.entries, u) IN
    IF websocket # NoConn
    THEN IF w.sock[websocket] = "open"
         THEN [w EXCEPT !.inbox[websocket] = Append(@, send_json_text(message))]
         ELSE [w EXCEPT !.err = e]
    ELSE w

\* ------------------------------------------------------- websocket_endpoint
\* except WebSocketDisconnect: manager.disconnect(user_id); broadcast(user_offline)
except_WebSocketDisconnect(w, c, e) ==
    IF w.pc[c] = "raise_in_try" /\ w.exc[c] = "WebSocketDisconnect"
    THEN LET w1 == disconnect(w, w.uid[c]) IN
         IF w1.err # "none"
         THEN [w1 EXCEPT !.exc[c] = w1.err, !.pc[c] = "raise", !.err = "none"]
         ELSE broadcast(w1, c, "offline", NoFrame, Offline(w.uid[c]), e)
    ELSE w

\* An exception nobody caught ends the task; the server then closes the socket,
\* as it does when the endpoint returns.
end_of_task(w, c) ==
    LET w1 == IF w.pc[c] \in {"raise", "raise_in_try"} THEN [w EXCEPT !.pc[c] = "crashed"] ELSE w
    IN  IF w1.pc[c] \in Ended /\ w1.sock[c] = "open"
        THEN [w1 EXCEPT !.sock[c] = "srv_closed"]
        ELSE w1

\* An exception x raised by receive_text or json.loads, inside the try.
raise_in_receive(w, c, x) == [w EXCEPT !.exc[c] = x, !.pc[c] = "raise_in_try"]

\* ------------------------------------------------------ the table users
Reqs == 1..NReq
Emails == 1..NEmails
Names == 1..NNames
NoToken == 0
NoReq == [st |-> "new", email |-> 0, username |-> 0, found |-> FALSE, token |-> NoToken]

\* db.query(User).filter(User.email == email).first(): is there such a row.
query_email_first(table, email) == \E row \in table : row.email = email

\* A plausible slip: the columns declared without unique=True, so that the
\* INSERT always goes through.
insert_user_not_unique(table, row) == [raised |-> "none", table |-> table \cup {row}]

\* db.add(new_user); db.commit(): the INSERT, which the UNIQUE indexes on email
\* and username reject with IntegrityError.
insert_user(table, row) ==
    IF \E old \in table : old.email = row.email \/ old.username = row.username
    THEN [raised |-> "IntegrityError", table |-> table]
    ELSE [raised |-> "none", table |-> table \cup {row}]

\* ------------------------------------------------------------------ actions
NoCall == [op |-> "none", key |-> 0, found |-> FALSE, raised |-> "none", absentDel |-> FALSE,
           tick |-> FALSE]   \* tick changes with every call

Init ==
    /\ entries = <<>>
    /\ pc = [c \in Conns |-> "new"]
    /\ uid = [c \in Conns |-> 0]
    /\ sock = [c \in Conns |-> "none"]
    /\ it = [c \in Conns |-> NoIter]
    /\ inbox = [c \in Conns |-> <<>>]
    /\ hist = [c \in Conns |-> <<>>]
    /\ cur = [c \in Conns |-> [snap |-> {}, sent |-> {}, missed |-> {}]]
    /\ exc = [c \in Conns |-> "none"]
    /\ regLast = [u \in Ids |-> NoConn]
    /\ call = NoCall
    /\ lastPres = [u \in Ids |-> "none"]
    /\ users = {}
    /\ req = [r \in Reqs |-> NoReq]

\* The inbound JSON frames relayed so far, over all connections.
Relayed == Cardinality({ck \in Conns \X (1..(MaxFrames + 2)) :
                            /\ ck[2] <= Len(hist[ck[1]])
                            /\ hist[ck[1]][ck[2]].kind = "relay"})

\* The identifiers in use; identifiers are interchangeable, so a connection
\* claims one already in use or the first one not yet in use.
UsedIds == {uid[c] : c \in Conns} \ {0}

\* A client opens /ws/{u}: accept, register, then the user_online broadcast up
\* to its first await.  (Connection instances are interchangeable, so they are
\* taken in the order of their numbers.)
Connect(c, u, e) ==
    /\ pc[c] = "new"
    /\ \A b \in Conns : b < c => pc[b] # "new"
    /\ \A v \in Ids : v < u => v \in UsedIds
    /\ Commit(end_of_task(
           broadcast(connect([World EXCEPT !.sock[c] = "open"], c, u),
                     c, "online", NoFrame, Online(u), e), c))

\* A send of the user_online broadcast returns: the loop goes on.
OnlineStep(c, e) ==
    /\ pc[c] = "online"
    /\ Commit(end_of_task(broadcast_step(World, c, e), c))

\* receive_text returns a text frame: json.loads, then the relay broadcast.
\* (Payloads are interchangeable, so they are numbered in the order in which
\* the server receives them.)
ReceiveText(c, f, e) ==
    /\ pc[c] = "recv"
    /\ sock[c] = "open"
    /\ Relayed < MaxFrames
    /\ IsJson(f) => loads(f) = Message(Relayed + 1)
    /\ Commit(end_of_task(
           except_WebSocketDisconnect(
               IF IsJson(f)
               THEN broadcast(World, c, "relay", f, loads(f), e)
               ELSE raise_in_receive(World, c, "JSONDecodeError"),
               c, e), c))

\* receive_text finds the peer gone and raises WebSocketDisconnect.
ReceiveDisconnect(c, e) ==
    /\ pc[c] = "recv"
    /\ sock[c] = "peer_closed"
    /\ Commit(end_of_task(
           except_WebSocketDisconnect(
               raise_in_receive(World, c, "WebSocketDisconnect"), c, e), c))

\* A send of the relay broadcast returns, inside the try.
RelayStep(c, e) ==
    /\ pc[c] = "relay"
    /\ Commit(end_of_task(
           except_WebSocketDisconnect(broadcast_step(World, c, e), c, e), c))

\* A send of the user_offline broadcast returns, inside the except handler.
OfflineStep(c, e) ==
    /\ pc[c] = "offline"
    /\ Commit(end_of_task(broadcast_step(World, c, e), c))

\* The client closes its side of the socket.
PeerClose(c) ==
    /\ pc[c] \notin {"new"} \cup Ended
    /\ sock[c] = "open"
    /\ sock' = [sock EXCEPT ![c] = "peer_closed"]
    /\ UNCHANGED <<entries, pc, uid, it, inbox, hist, cur, exc, regLast, call, lastPres,
                 users, req>>

Next ==
    \/ \E c \in Conns, u \in Ids, e \in SendExc : Connect(c, u, e)
    \/ \E c \in Conns, e \in SendExc : OnlineStep(c, e)
    \/ \E c \in Conns, f \in InFrames, e \in SendExc : ReceiveText(c, f, e)
    \/ \E c \in Conns, e \in SendExc : ReceiveDisconnect(c, e)
    \/ \E c \in Conns, e \in SendExc : RelayStep(c, e)
    \/ \E c \in Conns, e \in SendExc : OfflineStep(c, e)
    \/ \E c \in Conns : PeerClose(c)

Spec == Init /\ [][Next]_vars

\* ------------------------------------------- the manager's methods on their own
\* The methods of ConnectionManager called directly, in any order and with any
\* identifier, with no endpoint task around them.
Personal == Cardinality({ci \in Conns \X (1..MaxPersonal) : ci[2] <= Len(inbox[ci[1]])})

RegisterCall(c, u) ==
    /\ pc[c] = "new"
    /\ \A b \in Conns : b < c => pc[b] # "new"
    /\ \A v \in Ids : v < u => v \in UsedIds
    /\ Commit([connect([World EXCEPT !.sock[c] = "open", !.pc[c] = "recv"], c, u)
                EXCEPT !.call = [op |-> "connect", key |-> u, found |-> DictHas(entries, u),
                                 raised |-> "none", absentDel |-> call.absentDel,
                                 tick |-> ~call.tick]])

UnregisterCall(u) ==
    /\ u \in Ids
    /\ LET w == disconnect(World, u) IN
       Commit([w EXCEPT !.call = [op |-> "disconnect", key |-> u,
                                  found |-> DictHas(entries, u), raised |-> w.err,
                                  absentDel |-> call.absentDel \/ ~DictHas(entries, u),
                                  tick |-> ~call.tick]])

SendPersonalCall(u, e) ==
    /\ Personal < MaxPersonal
    /\ LET w == send_personal_message(World, u, Payload, e) IN
       Commit([w EXCEPT !.call = [op |-> "send_personal_message", key |-> u,
                                  found |-> DictGet(entries, u) # NoConn,
                                  raised |-> w.err, absentDel |-> call.absentDel,
                                  tick |-> ~call.tick]])

NextRegistry ==
    \/ \E c \in Conns, u \in Ids : RegisterCall(c, u)
    \/ \E u \in Ids : UnregisterCall(u)
    \/ \E u \in Ids, e \in SendExc : SendPersonalCall(u, e)
    \/ \E c \in Conns : PeerClose(c)

RegistrySpec == Init /\ [][NextRegistry]_vars

\* ------------------------------------------------------------------ signup
\* POST /signup runs in a worker thread with a database session of its own, so
\* the statements of two requests interleave.
relayVars == <<entries, pc, uid, sock, it, inbox, hist, cur, exc, regLast, call, lastPres>>

\* The existence check: 400 if a row with the email is there.
SignupCheck(r, email, username) ==
    /\ req[r].st = "new"
    /\ \A q \in Reqs : q < r => req[q].st # "new"
    /\ LET found == query_email_first(users, email) IN
       req' = [req EXCEPT ![r] = [st |-> IF found THEN "400" ELSE "checked",
                                  email |-> email, username |-> username,
                                  found |-> found, token |-> NoToken]]
    /\ UNCHANGED users
    /\ UNCHANGED relayVars

\* add, commit, refresh and the token for the new row's id (a fresh uuid, here
\* the number of the request); an IntegrityError is not handled (a 500).
SignupCommit(r) ==
    /\ req[r].st = "checked"
    /\ LET res == insert_user(users, [id |-> r, email |-> req[r].email,
                                      username |-> req[r].username]) IN
       /\ users' = res.table
       /\ req' = [req EXCEPT ![r].st = IF res.raised = "none" THEN "201" ELSE "500",
                             ![r].token = IF res.raised = "none" THEN r ELSE NoToken]
    /\ UNCHANGED relayVars

NextSignup ==
    \/ \E r \in Reqs, email \in Emails, username \in Names : SignupCheck(r, email, username)
    \/ \E r \in Reqs : SignupCommit(r)

SignupSpec == Init /\ [][NextSignup]_vars

\* ------------------------------------------------------------------ claims
Started(c) == Len(hist[c]) > 0
Last(c) == hist[c][Len(hist[c])]
Returned(c) == Started(c) /\ Last(c).res # "run"
Raised == SendExc \cup {"JSONDecodeError"}
LoopEnded == {"offline", "done", "crashed"}
Entry(c) == {i \in Live(entries) : entries[i].val = c}

\* C1: a broadcast that has ended has sent its envelope to every connection it
\* started with that is still reachable, wherever the failing recipients sat.
C1_BroadcastReachesEveryReachable ==
    \A c \in Conns : Returned(c) => cur[c].missed = {}

\* C2: a failed send to another connection is never raised to the caller of
\* broadcast (so the caller's loop does not end because of it).
C2_SendFailureNotRaised ==
    \A c \in Conns : \A k \in 1..Len(hist[c]) :
        hist[c][k].failedTo \in Conns \ {c} => hist[c][k].res \notin Raised

\* C3: a connection that sent a non-JSON frame has left its loop, is no longer
\* registered and has had user_offline broadcast for its identifier.
C3_NonJsonFrameIsADisconnect ==
    \A c \in Conns :
        exc[c] = "JSONDecodeError" =>
            /\ pc[c] \in LoopEnded
            /\ Entry(c) = {}
            /\ Last(c).kind = "offline" /\ Last(c).env = Offline(uid[c])

\* C4: a broadcast never fails in its iteration over the registry, and one that
\* returns has skipped no recipient it started with, whatever registrations
\* and unregistrations happened between its sends.
C4_IterationIsSafe ==
    \A c \in Conns :
        /\ \A k \in 1..Len(hist[c]) :
               ~(hist[c][k].res = "RuntimeError" /\ hist[c][k].failedTo = NoConn)
        /\ (Started(c) /\ Last(c).res = "ok") => cur[c].missed = {}

\* C5: the registry holds exactly the identifiers registered and not since
\* unregistered, one entry each, mapped to the connection registered last.
C5_RegistryReflectsCalls ==
    /\ \A i \in Live(entries) : entries[i].key \in Ids
    /\ \A u \in Ids : Cardinality({i \in Live(entries) : entries[i].key = u}) <= 1
    /\ \A u \in Ids : DictGet(entries, u) = regLast[u]

\* Two connections registered one after the other under one identifier, and
\* the registry holds the second.
C5_Witness ==
    \E a \in Conns, b \in Conns :
        /\ a < b /\ uid[a] # 0 /\ uid[a] = uid[b]
        /\ DictGet(entries, uid[b]) = b
        /\ Entry(a) = {}

\* C6: a relayed frame goes out with the value it came in with, to every
\* reachable connection registered when it was received, the sender included.
C6_RelayToAllRegistered ==
    \A c \in Conns :
        (Returned(c) /\ Last(c).kind = "relay" /\ c \in cur[c].snap) =>
            /\ Last(c).env = loads(Last(c).frame)
            /\ cur[c].missed = {}

\* C7: the first broadcast of a connection is user_online for its identifier,
\* started with the connection already registered and reaching every reachable
\* registered connection; no frame is relayed before it has returned.
C7_OnlineAfterRegister ==
    \A c \in Conns :
        Started(c) =>
            /\ hist[c][1].kind = "online" /\ hist[c][1].env = Online(uid[c])
            /\ Len(hist[c]) = 1 => /\ c \in cur[c].snap
                                   /\ Returned(c) => cur[c].missed = {}
            /\ Len(hist[c]) > 1 => hist[c][1].res = "ok"

\* C8: user_offline for a connection is broadcast with its identifier already
\* unregistered: never to the connection itself, and to every reachable
\* connection that remained registered.
C8_OfflineAfterUnregister ==
    \A c \in Conns :
        (Started(c) /\ Last(c).kind = "offline") =>
            /\ Last(c).env = Offline(uid[c])
            /\ c \notin cur[c].snap /\ c \notin cur[c].sent
            /\ Returned(c) => cur[c].missed = {}

\* C9: the task of a connection whose client closed does not end without the
\* cleanup: the identifier unregistered and user_offline broadcast.
C9_CloseLeadsToCleanup ==
    \A c \in Conns :
        (sock[c] = "peer_closed" /\ pc[c] \in Ended) =>
            /\ Entry(c) = {}
            /\ Last(c).kind = "offline"

\* The place of a task in Connecting, Online, (Receiving, Broadcasting)*, Offline.
Phase(at) ==
    CASE at = "new" -> 0
      [] at = "online" -> 1
      [] at \in {"recv", "relay"} -> 2
      [] at = "offline" -> 3
      [] OTHER -> 4

C10_Step(c) ==
    /\ Phase(pc'[c]) >= Phase(pc[c])
    /\ pc[c] \in LoopEnded =>
           /\ pc'[c] \in LoopEnded
           /\ Len(hist'[c]) = Len(hist[c])
           /\ Entry(c)' \subseteq Entry(c)
    /\ pc[c] \in Ended =>
           /\ pc'[c] = pc[c]
           /\ hist'[c] = hist[c]
           /\ cur'[c] = cur[c]

\* C10: a connection never moves backwards in Connecting, Online, (Receiving,
\* Broadcasting)*, Offline; once its loop has ended it is not registered again
\* and starts no further relay or presence broadcast, and an ended task does
\* nothing at all.
C10_OfflineIsTerminal == [][\A c \in Conns : C10_Step(c)]_vars

\* A connection went through the whole cycle, relayed a frame and ended, and
\* a later connection has since registered under its identifier.
C10_Witness ==
    \E c \in Conns, d \in Conns :
        /\ pc[c] = "done"
        /\ \E k \in 1..Len(hist[c]) : hist[c][k].kind = "relay"
        /\ c < d /\ uid[d] = uid[c] /\ Entry(d) # {}

\* A call of disconnect or send_personal_message with an absent identifier.
C11_Step ==
    /\ (call'.tick # call.tick /\ call'.op = "disconnect"
            /\ ~DictHas(entries, call'.key)) =>
           /\ entries' = entries
           /\ regLast' = regLast
           /\ ~call'.found /\ call'.raised = "none"
    /\ (call'.tick # call.tick /\ call'.op = "send_personal_message"
            /\ ~DictHas(entries, call'.key)) =>
           /\ inbox' = inbox
           /\ entries' = entries
           /\ ~call'.found /\ call'.raised = "none"

\* C11: unregistering an identifier that is not registered changes nothing and
\* raises nothing, and a personal message to an identifier that is not
\* registered finds nobody, sends nothing and raises nothing.
C11_RegistryOperationsTotal == [][C11_Step]_vars

\* An identifier was registered and unregistered, unregistered once more, and
\* then looked up for a personal message while other entries were live.
C11_Witness ==
    /\ call.op = "send_personal_message" /\ ~call.found
    /\ call.absentDel
    /\ \E c \in Conns : uid[c] = call.key
    /\ Live(entries) # {}

\* The connections whose except handler has unregistered their identifier and
\* started the user_offline broadcast.
WentOffline(c) == \E k \in 1..Len(hist[c]) : hist[c][k].kind = "offline"

InLoop == {"online", "recv", "relay"}

\* C13: when a connection registered under an identifier after another one and
\* the earlier, superseded connection then ends, the registry still maps the
\* identifier to the later connection as long as that one is in its loop.
C13_SupersededDisconnectKeepsNewer ==
    \A a \in Conns, b \in Conns :
        ( /\ a < b /\ uid[a] # 0 /\ uid[a] = uid[b]
          /\ pc[a] \in LoopEnded
          /\ pc[b] \in InLoop /\ sock[b] = "open"
          /\ ~\E d \in Conns : d > b /\ uid[d] = uid[b] )
        => DictGet(entries, uid[b]) = b

\* C14: no registry entry points at a connection whose loop has ended,
\* whatever ended it.
C14_NoEntryForEndedLoop ==
    \A c \in Conns : pc[c] \in LoopEnded => Entry(c) = {}

\* No broadcast is under way.
Quiescent == \A c \in Conns : it[c] = NoIter /\ pc[c] \notin {"online", "relay", "offline"}

\* C15: an identifier is registered exactly when the presence broadcast started
\* last for it is user_online; user_offline is never the latest one for an
\* identifier that has an entry in the registry.
C15_PresenceAgreesWithRegistry ==
    \A u \in Ids : DictHas(entries, u) <=> lastPres[u] = "user_online"

\* At a quiescent point: one identifier went offline through a superseded
\* connection while a later connection under it is still open, and another
\* identifier is registered and online.
C15_Witness ==
    /\ Quiescent
    /\ \E u \in Ids :
           /\ lastPres[u] = "user_offline" /\ ~DictHas(entries, u)
           /\ \E c \in Conns : uid[c] = u /\ sock[c] = "open" /\ pc[c] = "recv"
    /\ \E v \in Ids :
           /\ lastPres[v] = "user_online"
           /\ sock[DictGet(entries, v)] = "open"

\* The places in the inbox of r at which the client was delivered value v.
At(r, v) == {i \in 1..Len(inbox[r]) : loads(inbox[r][i]) = v}

\* The only connection of its identifier: the presence events for the
\* identifier are then the events of this connection.
SoleOfId(s) == uid[s] # 0 /\ \A d \in Conns \ {s} : uid[d] # uid[s]

\* C16: a connection's broadcasts run one at a time, user_online first, then
\* the inbound frames in the order received, user_offline last; a recipient
\* is delivered the sender's payloads in the order the sender relayed them,
\* after the sender's user_online and before its user_offline.
C16_RelayInOrder ==
    \A s \in Conns :
        /\ \A k \in 1..Len(hist[s]) :
               /\ k < Len(hist[s]) => hist[s][k].res # "run"
               /\ hist[s][k].kind = "online" <=> k = 1
               /\ hist[s][k].kind = "offline" => k = Len(hist[s])
               /\ hist[s][k].kind = "relay" => hist[s][k].env = loads(hist[s][k].frame)
        /\ \A r \in Conns : \A k \in 1..Len(hist[s]) : \A l \in 1..Len(hist[s]) :
               (k < l /\ hist[s][k].kind = "relay" /\ hist[s][l].kind = "relay") =>
                   \A i \in At(r, hist[s][k].env), j \in At(r, hist[s][l].env) : i < j
        /\ SoleOfId(s) =>
               \A r \in Conns : \A k \in 1..Len(hist[s]) :
                   hist[s][k].kind = "relay" =>
                       \A j \in At(r, hist[s][k].env) :
                           /\ \A i \in At(r, Online(uid[s])) : i < j
                           /\ \A i \in At(r, Offline(uid[s])) : j < i

\* A recipient other than the sender was delivered the sender's user_online,
\* its two payloads and its user_offline.
C16_Witness ==
    \E s \in Conns, r \in Conns :
        /\ s # r /\ SoleOfId(s)
        /\ Len(hist[s]) = 4
        /\ \A k \in 1..4 : At(r, hist[s][k].env) # {}

\* The rows request r created.
Created(r) == {row \in users : row.id = r}

\* C17: no two rows of users have one email; a signup whose existence check
\* finds its email ends with 400, and a signup that fails creates no row and
\* gets no token; a token is given only for the row the request created.
C17_SignupKeepsEmailsUnique ==
    /\ \A x \in users, y \in users : x.email = y.email => x = y
    /\ \A r \in Reqs :
           /\ req[r].found => req[r].st = "400"
           /\ req[r].st \in {"400", "500"} => Created(r) = {} /\ req[r].token = NoToken
           /\ req[r].st \in {"new", "checked"} => Created(r) = {} /\ req[r].token = NoToken
           /\ req[r].st = "201" =>
                  /\ req[r].token = r
                  /\ Created(r) = {[id |-> r, email |-> req[r].email,
                                    username |-> req[r].username]}

\* Two requests for one email, with different usernames, both passed the
\* existence check before either insert; one created the row and the other
\* failed; a third request for the email came later and was refused.
C17_Witness ==
    \E a \in Reqs, b \in Reqs, c \in Reqs :
        /\ req[a].email = req[b].email /\ req[a].username # req[b].username
        /\ req[a].st = "201" /\ ~req[b].found /\ req[b].st = "500"
        /\ req[c].email = req[a].email /\ req[c].st = "400"

====
